---------------------------- MODULE Spec2Model ----------------------------
(***************************************************************************)
(* A model of libflex's likelihood kernel (src/likleyhood.c).              *)
(*                                                                         *)
(* The C globals global_data and pchip_buffer, the heap blocks they point  *)
(* to and the per-call struct coef are the state.  A double is modelled as *)
(* a fixed-point number with three decimals (the integer 1500 stands for   *)
(* 1.5); a malloc'ed block is a record that remembers which of its slots   *)
(* have been written since malloc, so that a read of a slot that was never *)
(* written, a write past the end of a block, a use of a released block and *)
(* a NULL dereference are all visible.                                     *)
(*                                                                         *)
(* Three specifications share the definitions:                             *)
(*   Spec        the host calls init_globals, log_likleyhood and cleanup   *)
(*               one after the other, in any order;                        *)
(*   SpecDecode  one call of kwargs2coef, one loop iteration per step, the *)
(*               proposal revealed one entry at a time;                    *)
(*   SpecConc    two host threads inside log_likleyhood at the same time.  *)
(***************************************************************************)
EXTENDS Integers, Sequences, FiniteSets, TLC

VARIABLES
    run,           \* "running", or "crashed" once the process has died
    global_data,   \* struct global_data: x, y (blocks), len, order
    pchip_buffer,  \* struct pchip_buffer: d, out (blocks)
    heap,          \* live heap blocks, by who allocated them
    last,          \* the last call the host made and how it ended
    kw,            \* kwargs2coef's frame while it runs step by step
    th             \* the frames of the concurrent callers

vars == <<run, global_data, pchip_buffer, heap, last, kw, th>>

---------------------------------------------------------------------------
(* Bounds of the model.                                                    *)

\* longest dataset handed to init_globals
MaxLen == 2
\* largest number of interior knots handed to init_globals
MaxOrder == 1
\* how many datasets the host may leak by calling init_globals on a Ready
\* engine before init_globals is no longer followed
MaxLeaks == 1

---------------------------------------------------------------------------
(* Doubles as fixed point, and the constants of the source.                *)

\* one unit of a double, 1.0
FP == 10 ^ 3

\* #define global_border 0.1
global_border == 100

\* const double stdev = 0.025
stdev == 25

\* double nuc = 75.0
nuc == 75000

\* log(sqrt(2 * PI) * stdev) = 0.918939 - 3.688879
LogNorm == -2770

FMul(a, b) == (a * b) \div FP
FDiv(a, b) == (a * FP) \div b

\* size_t arithmetic.  TLC's integers are 32 bits wide, so size_t is given
\* 16 bits here; the requests of the model are far below either width and
\* only the wrap of a negative difference matters.
SIZE_MOD == 2 ^ 16
SizeT(v) == v % SIZE_MOD
PTRDIFF_MAX == (SIZE_MOD \div 2) - 1
\* sizeof(double)
SizeofDouble == 8

---------------------------------------------------------------------------
(* Heap blocks.                                                            *)

Zeros(n) == [i \in 1..n |-> 0]

\* a NULL pointer: the static initial value of a global pointer, or what
\* malloc returns when the request cannot be met
NullBlock == [st |-> "null", size |-> 0, val |-> <<>>, set |-> {}]

\* a live block of n slots, none of them written yet
FreshBlock(n) == [st |-> "live", size |-> n, val |-> Zeros(n), set |-> {}]

\* malloc(sizeof(double) * n), the product computed in size_t: NULL when the
\* byte count exceeds PTRDIFF_MAX, else a fresh block of that many bytes
malloc(n) ==
    LET bytes == SizeT(SizeofDouble * n)
    IN  IF bytes > PTRDIFF_MAX THEN NullBlock
        ELSE FreshBlock(bytes \div SizeofDouble)

\* free(p): the block is released and its contents are dead
free(b) ==
    IF b.st = "null" THEN b
    ELSE [st |-> "freed", size |-> b.size, val |-> Zeros(b.size), set |-> {}]

\* b[idx] = v for a C index idx that lies inside the block
Store(b, idx, v) ==
    [b EXCEPT !.val[idx + 1] = v, !.set = @ \cup {idx}]

InBounds(b, idx) == b.st = "live" /\ idx >= 0 /\ idx < b.size

\* the block holds a value in every one of its slots
FullyWritten(b) == b.st = "live" /\ b.set = 0..(b.size - 1)

\* b[idx] as the program reads it: the stored value, or garbage g when the
\* slot was never written or lies outside the block
Load(b, idx, g) ==
    IF InBounds(b, idx) /\ idx \in b.set THEN b.val[idx + 1] ELSE g

---------------------------------------------------------------------------
(* The numerics: libm, the foreground model, the Gaussian score.           *)

\* the frequencies a dataset may hold (50, 75 and 100 MHz)
DataFreqs == {50000, 75000, 100000}

\* libm's pow(nu / nuc, e) for e = -2.5, -4.5, -2.0 and log(nu / nuc), to
\* three decimals, at the frequencies of DataFreqs
PowM25(nu) ==
    CASE nu = 50000 -> 2756
      [] nu = nuc -> 1000 [] nu = 100000 -> 487

PowM45(nu) ==
    CASE nu = 50000 -> 6200
      [] nu = nuc -> 1000 [] nu = 100000 -> 274

PowM20(nu) ==
    CASE nu = 50000 -> 2250
      [] nu = nuc -> 1000 [] nu = 100000 -> 563

LogRatio(nu) ==
    CASE nu = 50000 -> -405
      [] nu = nuc -> 0 [] nu = 100000 -> 288

\* the coefficient indices t21fg_edgesa reads: a[0] .. a[4]
EdgesIdx == 0..4

\* t21fg_edgesa(a, nu), a given as the values read at EdgesIdx
t21fg_edgesa(a, nu) ==
      FMul(a[0], PowM25(nu))
    + FMul(FMul(a[1], PowM25(nu)), LogRatio(nu))
    + FMul(FMul(a[2], PowM25(nu)), FMul(LogRatio(nu), LogRatio(nu)))
    + FMul(a[3], PowM45(nu))
    + FMul(a[4], PowM20(nu))

\* t21fg: the wrapper selects the EDGES model
t21fg(a, nu) == t21fg_edgesa(a, nu)

\* logpdf(y, mean)
logpdf(y, mean) ==
    LET u == FDiv(y - mean, stdev)
    IN  FMul(-500, FMul(u, u)) - LogNorm

---------------------------------------------------------------------------
(* The interpolator (spline.h, an external library): what the engine       *)
(* relies on.  It rejects fewer than two knots and knot positions that are *)
(* not strictly increasing; otherwise the fit writes a derivative for      *)
(* every knot and the evaluation writes a value for every query point,     *)
(* computed from the knots and the stored derivatives.  The interpolant    *)
(* here is the piecewise linear one through the knots.                     *)

StrictlyIncreasing(s) == \A i \in 1..(Len(s) - 1) : s[i] < s[i + 1]

spline_rejects(n, x) == n < 2 \/ ~StrictlyIncreasing(x)

\* spline_pchip_set(n, x, f, d): the contents of d[0 .. n-1] afterwards
spline_pchip_set(n, x, f) ==
    LET slope(k) == FDiv(f[k + 1] - f[k], x[k + 1] - x[k])
    IN  [k \in 1..n |-> IF k < n THEN slope(k) ELSE slope(n - 1)]

\* the knot interval a query point falls in
Interval(n, x, xe) ==
    LET below == {k \in 1..(n - 1) : x[k] <= xe}
    IN  IF below = {} THEN 1
        ELSE CHOOSE k \in below : \A j \in below : j <= k

\* spline_pchip_val(n, x, f, d, ne, xe, fe): the contents of fe[0 .. ne-1]
spline_pchip_val(n, x, f, d, ne, xe) ==
    [j \in 1..ne |->
        LET k == Interval(n, x, xe[j])
        IN  f[k] + FMul(d[k], xe[j] - x[k])]

---------------------------------------------------------------------------
(* kwargs2coef.                                                            *)

Tags == {"x", "y", "a", "f"}

\* a faulty entry for comparison: the interior knot cursors start at slot 0,
\* the slot of the left boundary knot
KwEnterFromZero(len, gd) ==
    [pc    |-> "loop",
     len   |-> len,
     i     |-> 0,
     x     |-> malloc(SizeT(gd.order + 2)),
     y     |-> malloc(SizeT(gd.order + 2)),
     a     |-> malloc(SizeT(len - (2 * gd.order + 2))),
     x_loc |-> 0,
     y_loc |-> 0,
     a_loc |-> 0,
     f_loc |-> 0,
     spill |-> {},
     fault |-> FALSE]

\* the frame of kwargs2coef on entry: the three blocks of struct coef are
\* allocated, the four cursors set
KwEnter(len, gd) ==
    [pc    |-> "loop",
     len   |-> len,
     i     |-> 0,
     x     |-> malloc(SizeT(gd.order + 2)),
     y     |-> malloc(SizeT(gd.order + 2)),
     a     |-> malloc(SizeT(len - (2 * gd.order + 2))),
     x_loc |-> 1,
     y_loc |-> 1,
     a_loc |-> 0,
     f_loc |-> 0,
     spill |-> {},      \* the values written past the end of a block
     fault |-> FALSE]   \* a NULL or released pointer was dereferenced

\* blk[idx] = v for blk one of coef.x, coef.y, coef.a
Put(c, blk, idx, v) ==
    IF c[blk].st # "live" THEN [c EXCEPT !.fault = TRUE]
    ELSE IF InBounds(c[blk], idx) THEN [c EXCEPT ![blk] = Store(@, idx, v)]
    ELSE [c EXCEPT !.spill = @ \cup {v}]

\* one iteration of the loop: switch (keys[i][0]) on an entry with leading
\* character tag and value v; any other character falls through the switch
DecodeKey(c, tag, v, gd) ==
    CASE tag = "x" -> [Put(c, "x", c.x_loc, v) EXCEPT !.x_loc = @ + 1]
      [] tag = "y" -> [Put(c, "y", c.y_loc, v) EXCEPT !.y_loc = @ + 1]
      [] tag = "a" -> [Put(c, "a", c.a_loc, v) EXCEPT !.a_loc = @ + 1]
      [] tag = "f" ->
            IF ~InBounds(gd.x, 0) \/ ~InBounds(gd.x, gd.len - 1)
            THEN [c EXCEPT !.fault = TRUE]
            ELSE IF c.f_loc = 0
            THEN [Put(Put(c, "x", 0, gd.x.val[1] - global_border), "y", 0, v)
                     EXCEPT !.f_loc = @ + 1]
            ELSE Put(Put(c, "x", gd.order + 1,
                         gd.x.val[gd.len] + global_border),
                     "y", gd.order + 1, v)
      [] OTHER -> c

\* the body of the for loop, then i++
KwIterate(c, tag, v, gd) == [DecodeKey(c, tag, v, gd) EXCEPT !.i = @ + 1]

RECURSIVE KwLoop(_, _, _, _)
KwLoop(c, keys, val, gd) ==
    IF c.i < c.len
    THEN KwLoop(KwIterate(c, keys[c.i + 1], val[c.i + 1], gd), keys, val, gd)
    ELSE [c EXCEPT !.pc = "returned"]

\* kwargs2coef(keys, val, len): the frame at its return
kwargs2coef(keys, val, len, gd) == KwLoop(KwEnter(len, gd), keys, val, gd)

\* the frame when kwargs2coef is not running
KwIdle ==
    [pc |-> "idle", len |-> 0, i |-> 0, x |-> NullBlock, y |-> NullBlock,
     a |-> NullBlock, x_loc |-> 1, y_loc |-> 1, a_loc |-> 0, f_loc |-> 0,
     spill |-> {}, fault |-> FALSE]

---------------------------------------------------------------------------
(* log_likleyhood, after kwargs2coef has returned frame c.                 *)

\* what a read of memory the call never wrote may return: one choice per
\* call, for a knot position, a knot value and a coefficient
Garbage ==
    {[x |-> 0, y |-> 0, a |-> 0], [x |-> 200000, y |-> 25, a |-> 5]}

\* the values the fixed-point score can carry as a temperature
InRange(v) == v >= -100 /\ v <= 100

\* how the undefined behaviour of one call turns out.  A write past the end
\* of a coef block lands in padding ("none"), on a slot of the dataset's y
\* block ("clobber", followed for the values the score can carry), or on the
\* allocator's bookkeeping, which aborts the process ("crash").  A call on
\* released blocks faults ("crash") or finds them still mapped and returns
\* whatever they hold ("stale").
Outcomes(c, gd) ==
    IF gd.x.st = "freed"
    THEN {[k |-> "stale", j |-> 0, v |-> 0], [k |-> "crash", j |-> 0, v |-> 0]}
    ELSE IF c.spill = {} THEN {[k |-> "none", j |-> 0, v |-> 0]}
    ELSE {[k |-> "none", j |-> 0, v |-> 0], [k |-> "crash", j |-> 0, v |-> 0]}
         \cup {[k |-> "clobber", j |-> j, v |-> v] :
                 j \in 0..(gd.len - 1), v \in {w \in c.spill : InRange(w)}}

Clobber(gd, o) ==
    IF o.k = "clobber" /\ InBounds(gd.y, o.j)
    THEN [gd EXCEPT !.y = Store(@, o.j, o.v)]
    ELSE gd

\* the n knot slots as spline_pchip_set and spline_pchip_val read them
KnotSeq(b, n, g) == [k \in 1..n |-> Load(b, k - 1, g)]

\* the coefficients as t21fg reads them
CoefRead(c, g) == [k \in EdgesIdx |-> Load(c.a, k, g.a)]

\* every slot of the block is written with the values vals
WriteAll(b, vals) == [b EXCEPT !.val = vals, !.set = 0..(Len(vals) - 1)]

\* a faulty loop body for comparison: the foreground term is left out
LoopBodyNoForeground(retval, i, gd, out, A) ==
    retval + logpdf(gd.y.val[i + 1], out.val[i + 1])

\* one iteration of the scoring loop: retval += logpdf(...)
LoopBody(retval, i, gd, out, A) ==
    retval + logpdf(gd.y.val[i + 1],
                    out.val[i + 1] + t21fg(A, gd.x.val[i + 1]))

\* for (int i=0; i < global_data.len; i++) from index i with retval so far
RECURSIVE Accumulate(_, _, _, _, _)
Accumulate(i, retval, gd, out, A) ==
    IF i < gd.len
    THEN Accumulate(i + 1, LoopBody(retval, i, gd, out, A), gd, out, A)
    ELSE retval

\* a faulty fit for comparison: the derivative buffer is left as it was
FitIntoNothing(d, c, gd, g) == [d EXCEPT !.set = 0..(d.size - 1)]

\* spline_pchip_set(order+2, coef.x, coef.y, pchip_buffer.d)
FitInto(d, c, gd, g) ==
    WriteAll(d, spline_pchip_set(gd.order + 2,
                                 KnotSeq(c.x, gd.order + 2, g.x),
                                 KnotSeq(c.y, gd.order + 2, g.y)))

\* spline_pchip_val(order+2, coef.x, coef.y, pchip_buffer.d, len,
\*                  global_data.x, pchip_buffer.out)
EvalInto(out, d, c, gd, g) ==
    WriteAll(out, spline_pchip_val(gd.order + 2,
                                   KnotSeq(c.x, gd.order + 2, g.x),
                                   KnotSeq(c.y, gd.order + 2, g.y),
                                   d.val, gd.len, gd.x.val))

\* the call dies before it returns: a NULL or released pointer is
\* dereferenced, the allocator aborts, or the interpolator rejects the knots
Dies(c, gd, pb, g, o) ==
    \/ c.fault
    \/ o.k = "crash"
    \/ gd.x.st # "live" \/ gd.y.st # "live"
    \/ pb.d.st # "live" \/ pb.out.st # "live"
    \/ spline_rejects(gd.order + 2, KnotSeq(c.x, gd.order + 2, g.x))
    \/ (gd.len > 0 /\ c.a.st # "live")

\* what went wrong inside the call
CallEvents(c, gd) ==
       (IF c.spill # {} THEN {"oob_write"} ELSE {})
  \cup (IF c.fault THEN {"bad_deref"} ELSE {})
  \cup (IF \E k \in 0..(gd.order + 1) :
              /\ c.x.st = "live" /\ c.y.st = "live"
              /\ (k \notin c.x.set \/ k \notin c.y.set)
        THEN {"uninit_knot"} ELSE {})
  \cup (IF gd.len > 0 /\ \E k \in EdgesIdx : ~InBounds(c.a, k)
        THEN {"oob_read"} ELSE {})
  \cup (IF gd.len > 0 /\ \E k \in EdgesIdx :
              InBounds(c.a, k) /\ k \notin c.a.set
        THEN {"uninit_coef"} ELSE {})

\* the number of blocks of struct coef that malloc returned
KnotBlocks(c) == Cardinality({b \in {"x", "y", "a"} : c[b].st = "live"})

---------------------------------------------------------------------------
(* The inputs of the host.                                                 *)

\* the x arrays handed to init_globals: strictly increasing frequencies
XSeqs(len) == {s \in [1..len -> DataFreqs] : StrictlyIncreasing(s)}

\* the y arrays handed to init_globals: 0 and 0.05 K in turn
YSeqs(len) == {[i \in 1..len |-> ((i + s) % 2) * 50] : s \in 0..1}

Rep(t, n) == [i \in 1..n |-> t]

\* a proposal that fits order n and the EDGES model, names in schema order
Canonical(n) ==
    <<"f">> \o Rep("x", n) \o Rep("y", n) \o <<"f">> \o Rep("a", 5)

\* the same entries in another order
Shuffled(n) ==
    Rep("a", 2) \o Rep("y", n) \o <<"f">> \o Rep("a", 3) \o Rep("x", n)
                \o <<"f">>

Drop(s, p) == SubSeq(s, 1, p - 1) \o SubSeq(s, p + 1, Len(s))

\* the name sequences with a wrong number of entries for order n: the
\* canonical one with one entry missing or one entry too many, and three
\* short ones
Malformed(n) ==
    {Drop(Canonical(n), p) : p \in 1..Len(Canonical(n))}
      \cup {Append(Canonical(n), t) : t \in Tags}
      \cup {<<>>, <<"f">>, <<"f", "f">>}

\* the name sequences that fit order n
Fitting(n) == {Canonical(n), Shuffled(n)}

\* the position of entry i among the entries with its tag
Ord(keys, i) == Cardinality({j \in 1..i : keys[j] = keys[i]})

\* the range the host places its knots in: the boundary knots of the
\* dataset the engine holds
KnotLo(gd) ==
    IF gd.x.st = "live" /\ gd.len > 0 THEN gd.x.val[1] - global_border
    ELSE 50000 - global_border

KnotHi(gd) ==
    IF gd.x.st = "live" /\ gd.len > 0 THEN gd.x.val[gd.len] + global_border
    ELSE 50000 + global_border

\* the values of a proposal: knot positions spread evenly between the
\* boundary knots (ascending for s = 0, descending for s = 1), knot values
\* and coefficients alternating with the position
ValSeq(keys, s, gd) ==
    LET step == (KnotHi(gd) - KnotLo(gd)) \div 8
    IN  [i \in 1..Len(keys) |->
            CASE keys[i] = "x" ->
                    IF s = 0 THEN KnotLo(gd) + step * Ord(keys, i)
                    ELSE KnotHi(gd) - step * Ord(keys, i)
              [] keys[i] = "a" -> ((i + s) % 2) * 10
              [] OTHER -> ((i + s) % 2) * 50]

\* the proposals the host makes to an engine of some order
Proposals(gd) ==
    {[keys |-> k, val |-> ValSeq(k, s, gd)] :
        k \in Fitting(gd.order), s \in 0..1}
      \cup {[keys |-> k, val |-> ValSeq(k, 0, gd)] :
                k \in Malformed(gd.order)}

---------------------------------------------------------------------------
(* The three entry points, each a whole call.                              *)

\* the record of the last call of the host: the entry point, how it ended,
\* its arguments, the value it returned and what went wrong inside it
NoCall == [op |-> "none", end |-> "returned", keys |-> <<>>, val |-> <<>>,
           x |-> <<>>, y |-> <<>>, ret |-> 0, ev |-> {}]

Live(b) == IF b.st = "live" THEN 1 ELSE 0

\* how many of the four blocks the globals point at are allocated
LiveEngine(gd, pb) == Live(gd.x) + Live(gd.y) + Live(pb.d) + Live(pb.out)

\* for(int i=0; i < len; i++) { global_data.x[i] = x[i]; ... y[i] = y[i]; }
RECURSIVE CopyLoop(_, _, _, _, _)
CopyLoop(i, gd, x, y, len) ==
    IF i < len
    THEN CopyLoop(i + 1,
                  [gd EXCEPT !.x = Store(@, i, x[i + 1]),
                             !.y = Store(@, i, y[i + 1])],
                  x, y, len)
    ELSE gd

\* global_data after init_globals(x, y, len, order)
InitData(x, y, len, order) ==
    [CopyLoop(0, [x |-> malloc(SizeT(len)), y |-> malloc(SizeT(len)),
                  len |-> 0, order |-> 0], x, y, len)
        EXCEPT !.len = len, !.order = order]

\* pchip_buffer after init_globals
InitScratch(gd) ==
    [d |-> malloc(SizeT(gd.order + 2)), out |-> malloc(SizeT(gd.len))]

init_globals ==
    /\ run = "running"
    /\ heap.engine <= 4 * MaxLeaks
    /\ \E len \in 1..MaxLen, order \in 0..MaxOrder :
         \E x \in XSeqs(len), y \in YSeqs(len) :
            LET gd == InitData(x, y, len, order)
                pb == InitScratch(gd)
            IN  /\ global_data' = gd
                /\ pchip_buffer' = pb
                /\ heap' = [heap EXCEPT !.engine = @ + LiveEngine(gd, pb)]
                /\ last' = [NoCall EXCEPT
                              !.op = "init", !.x = x, !.y = y,
                              !.ev = IF global_data.x.st = "live"
                                     THEN {"leak"} ELSE {}]
    /\ UNCHANGED <<run, kw, th>>

\* a faulty cleanup for comparison: pchip_buffer.out is not released
ReleasedButOut(gd, pb) ==
    <<[gd EXCEPT !.x = free(@), !.y = free(@)],
      [d |-> free(pb.d), out |-> pb.out]>>

\* the four frees of cleanup
Released(gd, pb) ==
    <<[gd EXCEPT !.x = free(@), !.y = free(@)],
      [d |-> free(pb.d), out |-> free(pb.out)]>>

cleanup ==
    /\ run = "running"
    /\ LET twice == "freed" \in {global_data.x.st, global_data.y.st,
                                 pchip_buffer.d.st, pchip_buffer.out.st}
       IN  \E o \in (IF twice THEN {"none", "crash"} ELSE {"none"}) :
              /\ run' = IF o = "crash" THEN "crashed" ELSE "running"
              /\ global_data' = Released(global_data, pchip_buffer)[1]
              /\ pchip_buffer' = Released(global_data, pchip_buffer)[2]
              /\ heap' = [heap EXCEPT
                            !.engine =
                               @ - LiveEngine(global_data, pchip_buffer)
                                 + LiveEngine(
                                     Released(global_data, pchip_buffer)[1],
                                     Released(global_data, pchip_buffer)[2])]
              /\ last' = [NoCall EXCEPT
                            !.op = "cleanup",
                            !.end = IF o = "crash" THEN "crashed"
                                    ELSE "returned",
                            !.ev = IF twice THEN {"double_free"} ELSE {}]
    /\ UNCHANGED <<kw, th>>

\* the events of a call made outside the engine's Ready state
Misuse(gd) ==
    CASE gd.x.st = "null" -> {"use_unallocated"}
      [] gd.x.st = "freed" -> {"use_after_free"}
      [] OTHER -> {}

\* a faulty release for comparison: coef.a is forgotten
KnotFreesButA(c) == <<c.x, c.y>>

\* free(coef.x); free(coef.y); free(coef.a): the blocks handed to free
KnotFrees(c) == <<c.x, c.y, c.a>>

\* how many live blocks a sequence of frees releases
FreeCount(blocks) ==
    Cardinality({k \in 1..Len(blocks) : blocks[k].st = "live"})

\* the garbage a call can tell apart: one choice when it reads nothing
\* that it did not write
GarbageFor(c, gd) ==
    IF gd.x.st = "freed"
       \/ CallEvents(c, gd) \cap {"uninit_knot", "oob_read", "uninit_coef"} # {}
    THEN Garbage
    ELSE {CHOOSE g \in Garbage : g.y = 0}

log_likleyhood ==
    /\ run = "running"
    /\ \E p \in Proposals(global_data) :
       \E c \in {kwargs2coef(p.keys, p.val, Len(p.keys), global_data)} :
       \E g \in GarbageFor(c, global_data) :
       \E o \in Outcomes(c, global_data) :
       \E gd \in {Clobber(global_data, o)} :
         LET call == [op |-> "eval", end |-> "returned",
                      keys |-> p.keys, val |-> p.val, ret |-> 0,
                      ev |-> CallEvents(c, gd) \cup Misuse(gd)]
         IN  IF o.k # "stale" /\ Dies(c, gd, pchip_buffer, g, o)
             THEN /\ run' = "crashed"
                  /\ last' = [call EXCEPT !.end = "crashed"]
                  /\ heap' = [heap EXCEPT !.knot = @ + KnotBlocks(c)]
                  /\ UNCHANGED <<global_data, pchip_buffer>>
             ELSE IF o.k = "stale"
             THEN /\ last' = [call EXCEPT !.ret = g.y]
                  /\ UNCHANGED <<run, heap, global_data, pchip_buffer>>
             ELSE \E d \in {FitInto(pchip_buffer.d, c, gd, g)} :
                  \E out \in {EvalInto(pchip_buffer.out, d, c, gd, g)} :
                     /\ global_data' = gd
                     /\ pchip_buffer' = [d |-> d, out |-> out]
                     /\ last' = [call EXCEPT
                                   !.ret = Accumulate(0, 0, gd, out,
                                                      CoefRead(c, g))]
                     /\ heap' = [heap EXCEPT
                                   !.knot = @ + KnotBlocks(c)
                                              - FreeCount(KnotFrees(c))]
                     /\ UNCHANGED run
    /\ UNCHANGED <<kw, th>>

---------------------------------------------------------------------------
(* Spec: the host calls the entry points one after the other.              *)

NoThreads == <<>>

Init ==
    /\ run = "running"
    \* the globals are static: zero-initialised
    /\ global_data = [x |-> NullBlock, y |-> NullBlock, len |-> 0, order |-> 0]
    /\ pchip_buffer = [d |-> NullBlock, out |-> NullBlock]
    /\ heap = [engine |-> 0, knot |-> 0]
    /\ last = NoCall
    /\ kw = KwIdle
    /\ th = NoThreads

Next == init_globals \/ log_likleyhood \/ cleanup

Spec == Init /\ [][Next]_vars

---------------------------------------------------------------------------
(* SpecDecode: kwargs2coef on a Ready engine, one loop iteration per step. *)
(* The proposal is revealed as the loop reads it: each iteration draws the *)
(* tag and the value of the entry it is about to decode.                   *)

\* the longest proposal: what order MaxOrder and the EDGES model need
MaxPLen == 2 * MaxOrder + 2 + 5

\* the values the k-th entry with a tag may carry: the k-th knot position
\* of an ascending grid, the coefficient k * 0.01, or one of two knot values
TagVals(tag, k, gd) ==
    LET step == (KnotHi(gd) - KnotLo(gd)) \div 8
    IN  CASE tag = "x" -> {KnotLo(gd) + step * k}
          [] tag = "a" -> {10 * k}
          [] OTHER -> {0, 50}

\* the engine as init_globals leaves it
ReadyStates ==
    {[gd |-> InitData(x, (CHOOSE y \in YSeqs(Len(x)) : y[1] = 0), Len(x), order),
      order |-> order] :
        x \in XSeqs(1) \cup XSeqs(MaxLen), order \in 0..MaxOrder}

InitDecode ==
    /\ run = "running"
    /\ \E r \in ReadyStates :
          /\ global_data = r.gd
          /\ pchip_buffer = InitScratch(r.gd)
    /\ heap = [engine |-> 4, knot |-> 0]
    /\ last = [NoCall EXCEPT !.op = "init"]
    /\ kw = KwIdle
    /\ th = NoThreads

\* the entries decoded so far, by tag and in the order met; a tag's
\* sequence stops growing one entry past what any schema of the model holds
Seen0 == [x |-> <<>>, y |-> <<>>, a |-> <<>>, f |-> <<>>]

SeenCap(tag) ==
    CASE tag = "x" -> MaxOrder + 1
      [] tag = "y" -> MaxOrder + 1
      [] tag = "a" -> 6
      [] tag = "f" -> 3

\* kwargs2coef(keys, val, len) is entered
KwCall ==
    /\ run = "running"
    /\ kw.pc = "idle"
    /\ \E len \in 0..MaxPLen :
          /\ kw' = KwEnter(len, global_data) @@ [seen |-> Seen0]
          /\ heap' = [heap EXCEPT
                        !.knot = @ + KnotBlocks(KwEnter(len, global_data))]
    /\ UNCHANGED <<run, global_data, pchip_buffer, last, th>>

\* one iteration of the for loop, on an entry the host supplied
KwStep ==
    /\ run = "running"
    /\ kw.pc = "loop"
    /\ kw.i < kw.len
    /\ \E tag \in Tags :
          /\ Len(kw.seen[tag]) < SeenCap(tag)
          /\ \E v \in TagVals(tag, Len(kw.seen[tag]) + 1, global_data) :
             \E c \in {KwIterate(kw, tag, v, global_data)} :
             \E o \in Outcomes([spill |-> c.spill \ kw.spill], global_data) :
                /\ kw' = [c EXCEPT !.seen[tag] = Append(@, v)]
                /\ run' = IF c.fault \/ o.k = "crash" THEN "crashed"
                          ELSE "running"
                /\ global_data' = Clobber(global_data, o)
    /\ UNCHANGED <<pchip_buffer, heap, last, th>>

\* the loop is over: return coef
KwReturn ==
    /\ run = "running"
    /\ kw.pc = "loop"
    /\ kw.i >= kw.len
    /\ kw' = [kw EXCEPT !.pc = "returned"]
    /\ UNCHANGED <<run, global_data, pchip_buffer, heap, last, th>>

NextDecode == KwCall \/ KwStep \/ KwReturn

SpecDecode == InitDecode /\ [][NextDecode]_vars

---------------------------------------------------------------------------
(* SpecConc: two host threads call log_likleyhood on one Ready engine with *)
(* no lock between them.  struct coef is local to a call; pchip_buffer.d   *)
(* and pchip_buffer.out are shared.  A step is one statement of the call.  *)

Threads == {1, 2}

\* a thread outside log_likleyhood
ThIdle ==
    [pc |-> "idle", keys |-> <<>>, val |-> <<>>, c |-> KwIdle, i |-> 0,
     retval |-> 0,
     d_mine |-> FALSE,    \* this call wrote pchip_buffer.d last
     out_mine |-> FALSE,  \* this call wrote pchip_buffer.out last
     mixed |-> FALSE,     \* this call read scratch another call wrote
     overlap |-> FALSE]   \* another call ran while this one did

Active(f) == f.pc \in {"fit", "val", "acc"}

InitConc ==
    /\ run = "running"
    /\ \E r \in {q \in ReadyStates : q.gd.len = MaxLen} :
          /\ global_data = r.gd
          /\ pchip_buffer = InitScratch(r.gd)
    /\ heap = [engine |-> 4, knot |-> 0]
    /\ last = [NoCall EXCEPT !.op = "init"]
    /\ kw = KwIdle
    /\ th = [t \in Threads |-> ThIdle]

\* the proposals of the concurrent callers: the canonical layout of the
\* engine's order, with either value pattern
ConcProposals(gd) ==
    {[keys |-> Canonical(gd.order), val |-> ValSeq(Canonical(gd.order), s, gd)] :
        s \in 0..1}

NoGarbage == CHOOSE g \in Garbage : g.y = 0

\* struct coef coef = kwargs2coef(keys, val, len); double retval = 0;
CDecode(t) ==
    /\ run = "running"
    /\ ~Active(th[t])
    /\ \E p \in ConcProposals(global_data) :
       \E c \in {kwargs2coef(p.keys, p.val, Len(p.keys), global_data)} :
          /\ ~Dies(c, global_data, pchip_buffer, NoGarbage,
                   [k |-> "none", j |-> 0, v |-> 0])
          /\ th' = [u \in Threads |->
                      IF u = t
                      THEN [ThIdle EXCEPT
                              !.pc = "fit", !.keys = p.keys, !.val = p.val,
                              !.c = c,
                              !.overlap = \E w \in Threads \ {t} :
                                             Active(th[w])]
                      ELSE IF Active(th[u])
                      THEN [th[u] EXCEPT !.overlap = TRUE]
                      ELSE th[u]]
          /\ heap' = [heap EXCEPT !.knot = @ + KnotBlocks(c)]
    /\ UNCHANGED <<run, global_data, pchip_buffer, last, kw>>

\* spline_pchip_set(global_data.order+2, coef.x, coef.y, pchip_buffer.d);
CFit(t) ==
    /\ run = "running"
    /\ th[t].pc = "fit"
    /\ pchip_buffer' =
         [pchip_buffer EXCEPT
            !.d = FitInto(@, th[t].c, global_data, NoGarbage)]
    /\ th' = [u \in Threads |->
                IF u = t THEN [th[u] EXCEPT !.pc = "val", !.d_mine = TRUE]
                ELSE [th[u] EXCEPT !.d_mine = FALSE]]
    /\ UNCHANGED <<run, global_data, heap, last, kw>>

\* spline_pchip_val(..., pchip_buffer.d, ..., pchip_buffer.out);
CVal(t) ==
    /\ run = "running"
    /\ th[t].pc = "val"
    /\ pchip_buffer' =
         [pchip_buffer EXCEPT
            !.out = EvalInto(@, pchip_buffer.d, th[t].c, global_data,
                             NoGarbage)]
    /\ th' = [u \in Threads |->
                IF u = t
                THEN [th[u] EXCEPT !.pc = "acc", !.i = 0, !.out_mine = TRUE,
                                   !.mixed = @ \/ ~th[t].d_mine]
                ELSE [th[u] EXCEPT !.out_mine = FALSE]]
    /\ UNCHANGED <<run, global_data, heap, last, kw>>

\* one iteration of the scoring loop
CAcc(t) ==
    /\ run = "running"
    /\ th[t].pc = "acc"
    /\ th[t].i < global_data.len
    /\ th' = [th EXCEPT
                ![t].retval = LoopBody(@, th[t].i, global_data,
                                       pchip_buffer.out,
                                       CoefRead(th[t].c, NoGarbage)),
                ![t].i = @ + 1,
                ![t].mixed = @ \/ ~th[t].out_mine]
    /\ UNCHANGED <<run, global_data, pchip_buffer, heap, last, kw>>

\* free(coef.x); free(coef.y); free(coef.a); return retval;
CFree(t) ==
    /\ run = "running"
    /\ th[t].pc = "acc"
    /\ th[t].i >= global_data.len
    /\ th' = [th EXCEPT ![t].pc = "done"]
    /\ heap' = [heap EXCEPT !.knot = @ - FreeCount(KnotFrees(th[t].c))]
    /\ UNCHANGED <<run, global_data, pchip_buffer, last, kw>>

NextConc ==
    \E t \in Threads : CDecode(t) \/ CFit(t) \/ CVal(t) \/ CAcc(t) \/ CFree(t)

SpecConc == InitConc /\ [][NextConc]_vars

---------------------------------------------------------------------------
(* The reference the engine is compared with: the decoding and the score   *)
(* written down directly from a proposal, without cursors or loops.        *)

\* the values of the entries with a tag, in the order met
RECURSIVE Pick(_, _, _)
Pick(keys, val, tag) ==
    IF keys = <<>> THEN <<>>
    ELSE (IF Head(keys) = tag THEN <<Head(val)>> ELSE <<>>)
            \o Pick(Tail(keys), Tail(val), tag)

Count(keys, tag) == Cardinality({i \in 1..Len(keys) : keys[i] = tag})

\* the decoder schema for an engine of some order
Schema(keys, order) ==
    /\ Count(keys, "x") = order
    /\ Count(keys, "y") = order
    /\ Count(keys, "f") = 2
    /\ Count(keys, "a") = Len(keys) - 2 * order - 2

\* the engine is Ready: the four blocks of init_globals are allocated
Ready == LiveEngine(global_data, pchip_buffer) = 4

\* the least and the greatest frequency of the dataset
x_min(gd) ==
    CHOOSE v \in {gd.x.val[i] : i \in 1..gd.len} :
        \A i \in 1..gd.len : v <= gd.x.val[i]

x_max(gd) ==
    CHOOSE v \in {gd.x.val[i] : i \in 1..gd.len} :
        \A i \in 1..gd.len : v >= gd.x.val[i]

\* the knot positions and values of the reference decoding
RefKnotX(xs, gd) ==
    <<x_min(gd) - global_border>> \o xs \o <<x_max(gd) + global_border>>

RefKnotY(ys, fs) == <<fs[1]>> \o ys \o <<fs[2]>>

RECURSIVE SeqSum(_)
SeqSum(s) == IF s = <<>> THEN 0 ELSE Head(s) + SeqSum(Tail(s))

\* the sum over the observations of logpdf(y[i], spline_eval[i] + fg(a, x[i]))
RefScore(keys, val, gd) ==
    LET n == gd.order + 2
        X == RefKnotX(Pick(keys, val, "x"), gd)
        Y == RefKnotY(Pick(keys, val, "y"), Pick(keys, val, "f"))
        a == Pick(keys, val, "a")
        A == [k \in EdgesIdx |-> a[k + 1]]
        S == spline_pchip_val(n, X, Y, spline_pchip_set(n, X, Y),
                              gd.len, gd.x.val)
    IN  SeqSum([i \in 1..gd.len |->
                  logpdf(gd.y.val[i], S[i] + t21fg(A, gd.x.val[i]))])

\* a proposal the engine can score: it satisfies the schema and carries the
\* five coefficients of the EDGES model
WellFormed(keys, order) == Schema(keys, order) /\ Count(keys, "a") >= 5

---------------------------------------------------------------------------
(* kwargs2coef against the reference decoding (SpecDecode).                *)

\* the entries kwargs2coef has decoded satisfy the schema of the engine
SeenSchema ==
    /\ Len(kw.seen.x) = global_data.order
    /\ Len(kw.seen.y) = global_data.order
    /\ Len(kw.seen.f) = 2
    /\ Len(kw.seen.a) = kw.len - 2 * global_data.order - 2

---------------------------------------------------------------------------
(* The entry points against their contract (Spec).                         *)

\* the last call was log_likleyhood on a Ready engine
EvalInReady == last.op = "eval" /\ Ready

\* C2: log_likleyhood on a proposal whose tag counts do not match the schema
\* fails with a decode error the caller can tell from a result, writes no
\* knot or coefficient slot outside its block and hands no unwritten knot
\* slot to the interpolator.
C2_DecodeErrorOnMismatch ==
    (EvalInReady /\ ~Schema(last.keys, global_data.order)) =>
        /\ last.end = "decode_error"
        /\ last.ev \cap {"oob_write", "uninit_knot"} = {}

\* C3: the engine follows Uninitialized -> Ready -> Uninitialized: no call
\* reads blocks that were never allocated or were already released, no
\* init_globals replaces live blocks without releasing them, no cleanup
\* releases the same blocks twice.
C3_LifecycleEnforced ==
    last.ev \cap {"use_unallocated", "use_after_free", "leak", "double_free"}
        = {}

\* C4: every log_likleyhood that returns has released the three blocks of
\* its struct coef: while the process runs, no block of a struct coef is
\* live between calls.
C4_KnotSetReleased == run = "running" => heap.knot = 0

\* log_likleyhood has returned on a Ready engine and no block of its struct
\* coef is live
C4_Witness ==
    /\ EvalInReady /\ last.end = "returned"
    /\ WellFormed(last.keys, global_data.order)
    /\ heap.knot = 0

\* C5: a log_likleyhood call on a Ready engine, whatever its proposal and
\* however it ends, leaves global_data as it was.
C5_DatasetUnchanged ==
    [][(last'.op = "eval" /\ Ready) => global_data' = global_data]_vars

\* C6: on a fixed dataset, a log_likleyhood call that repeats the proposal of
\* the call before it returns the same value.
C6_SameProposalSameResult ==
    [][(/\ last.op = "eval" /\ last'.op = "eval"
        /\ last.end = "returned" /\ last'.end = "returned"
        /\ last'.keys = last.keys /\ last'.val = last.val
        /\ Ready /\ global_data' = global_data)
          => last'.ret = last.ret]_vars

\* C8: for a well-formed proposal on a Ready engine, the value log_likleyhood
\* returns is the sum, over the observations 0..len-1 each counted once and
\* starting from 0, of logpdf(y[i], spline_eval[i] + foreground(a, x[i])),
\* with spline_eval the interpolator's output for the decoded knots at the
\* dataset's x and a the decoded coefficients.
C8_ScoreIsSum ==
    (EvalInReady /\ last.end = "returned"
        /\ WellFormed(last.keys, global_data.order))
      => last.ret = RefScore(last.keys, last.val, global_data)

\* log_likleyhood has returned a non-zero score for a well-formed proposal
\* with interior knots on a dataset of more than one observation
C8_Witness ==
    /\ EvalInReady /\ last.end = "returned"
    /\ WellFormed(last.keys, global_data.order)
    /\ global_data.len = MaxLen /\ global_data.order = MaxOrder
    /\ last.ret # 0
    /\ last.ret = RefScore(last.keys, last.val, global_data)

\* the engine is Uninitialized: its blocks were never allocated, or released
Uninitialized == LiveEngine(global_data, pchip_buffer) = 0

\* C9: init_globals on an Uninitialized engine allocates exactly four blocks
\* (x and y of len slots, d of order+2 slots, out of len slots) and copies
\* x[i] and y[i] for every i; cleanup on a Ready engine releases exactly
\* those four; log_likleyhood allocates and releases none of them.  The count
\* of live engine blocks, zero at the start, is therefore four between
\* init_globals and cleanup and zero after each pair.
C9_FourBuffers ==
    [][/\ (last'.op = "init" /\ Uninitialized) =>
            /\ heap'.engine = heap.engine + 4
            /\ Ready'
            /\ global_data'.x.size = global_data'.len
            /\ global_data'.y.size = global_data'.len
            /\ pchip_buffer'.d.size = global_data'.order + 2
            /\ pchip_buffer'.out.size = global_data'.len
            /\ global_data'.len = Len(last'.x)
            /\ FullyWritten(global_data'.x) /\ global_data'.x.val = last'.x
            /\ FullyWritten(global_data'.y) /\ global_data'.y.val = last'.y
       /\ (last'.op = "cleanup" /\ Ready) =>
            /\ heap'.engine = heap.engine - 4
            /\ Uninitialized'
            /\ \A b \in {global_data'.x, global_data'.y,
                         pchip_buffer'.d, pchip_buffer'.out} : b.st = "freed"
       /\ last'.op = "eval" => heap'.engine = heap.engine]_vars

\* a second pair of init_globals and cleanup has completed with no block
\* left: cleanup has just released the four blocks of a Ready engine
C9_Witness ==
    /\ last.op = "cleanup" /\ last.ev = {} /\ last.end = "returned"
    /\ Uninitialized
    /\ global_data.x.st = "freed" /\ global_data.x.size = MaxLen
    /\ heap.engine = 0

\* C10: for a proposal that satisfies the schema, with len >= 2*order+2,
\* every coefficient index the foreground model reads (0..4) lies inside the
\* coefficient block and was written by the decoder in the same call, and
\* the size len-(2*order+2) of that block is computed without wrap-around.
C10_CoefficientReadsInBounds ==
    (/\ EvalInReady
     /\ Schema(last.keys, global_data.order)
     /\ Len(last.keys) >= 2 * global_data.order + 2)
      => /\ last.ev \cap {"oob_read", "uninit_coef"} = {}
         /\ SizeT(Len(last.keys) - (2 * global_data.order + 2))
              = Len(last.keys) - (2 * global_data.order + 2)

---------------------------------------------------------------------------
(* Two concurrent callers against the serial result (SpecConc).            *)

\* the value a call returns when it runs alone
SerialResult(f) == RefScore(f.keys, f.val, global_data)

\* C7: two log_likleyhood calls that overlap race on pchip_buffer.d and
\* pchip_buffer.out: a call returns something other than its serial result
\* only after reading scratch the other call wrote, and a call that no other
\* call overlapped reads only its own scratch and returns its serial result.
C7_ScratchRace ==
    \A t \in Threads :
       th[t].pc = "done" =>
          /\ ~th[t].overlap =>
                (~th[t].mixed /\ th[t].retval = SerialResult(th[t]))
          /\ th[t].retval # SerialResult(th[t]) =>
                (th[t].mixed /\ th[t].overlap)

\* an interleaving in which a call has read scratch written by the other
\* call, which carried a different proposal, and has returned a value that
\* is not its serial result
C7_Witness ==
    \E t \in Threads : \E u \in Threads \ {t} :
       /\ th[t].pc = "done"
       /\ th[t].mixed /\ th[t].overlap
       /\ th[u].pc # "idle" /\ th[u].val # th[t].val
       /\ th[t].retval # SerialResult(th[t])

=============================================================================
